---- MODULE Spec2Model ----
(***************************************************************************)
(* Model of QGIS_Linearize_geometry.py: GeometryConverter.linearize_geometry *)
(* with its two collection converters, and the per-record loop of           *)
(* GeometryLinearizer.processAlgorithm that calls it.                        *)
(*                                                                           *)
(* A geometry is a record [kind, z, subs]: its subtype, whether it carries a *)
(* height coordinate, and its ordered children.  Coordinates are left out.   *)
(* Python's None is the record Null.                                         *)
(* The statements of linearize_geometry are actions on a stack of frames;    *)
(* the operations of the geometry library (GetLinearGeometry, segmentize,    *)
(* AddGeometry, ...) are operators.                                          *)
(***************************************************************************)
EXTENDS Integers, Sequences, FiniteSets, TLC

\* ------------------------------------------------------------------ bounds

\* Most nodes (root included) of a geometry given to linearize_geometry directly.
MaxNodes == 4
\* Most nodes of the geometry of a record of the input layer.
MaxFeatureNodes == 2
\* Most records of the input layer.
MaxFeatures == 3

\* ------------------------------------------------------- program constants

\* defaultValue=3.0 of the TOLERANCE parameter.
DefaultTolerance == 3
\* def linearize_geometry(geom, segmentize_tolerance): two parameters, no default.
LinearizeParams == 2
\* GeometryConverter.linearize_geometry(ogr_geom.Clone(), tolerance)
HarnessCallArgs == 2
\* GeometryConverter.linearize_geometry(subgeom) / (sub)
RecursiveCallArgs == 1
\* ogr.wkb* codes the source compares against.
wkbCircularString == 8
wkbCompoundCurve == 9
wkbCurvePolygon == 10
wkbMultiCurve == 11
wkbMultiSurface == 12
wkbCurve == 13
\* geom.GetGeometryType() == ogr.wkbMultiCurve + 1000
ZOffset == 1000
wkbCircularStringZ == 1008
wkbCompoundCurveZ == 1009
wkbCurvePolygonZ == 1010
wkbMultiCurveZ == 1011
wkbMultiSurfaceZ == 1012
wkbCurveZ == 1013

Tolerances == {1, DefaultTolerance}

\* ---------------------------------------------------------------- geometry

Null == [kind |-> "None", z |-> FALSE, subs |-> <<>>]

Kinds ==
  {"Point", "LineString", "Polygon", "MultiLineString", "MultiPolygon",
   "GeometryCollection", "CircularString", "CompoundCurve", "CurvePolygon",
   "MultiCurve", "MultiSurface"}

\* The kinds a value of each kind may hold as direct children.
ChildKinds(kind) ==
  CASE kind = "CompoundCurve" -> {"LineString", "CircularString"}
    [] kind = "Polygon" -> {"LineString"}
    [] kind = "CurvePolygon" -> {"LineString", "CircularString", "CompoundCurve"}
    [] kind = "MultiLineString" -> {"LineString"}
    [] kind = "MultiPolygon" -> {"Polygon"}
    [] kind = "MultiCurve" -> {"LineString", "CircularString", "CompoundCurve"}
    [] kind = "MultiSurface" -> {"Polygon", "CurvePolygon"}
    [] kind = "GeometryCollection" ->
         {"Point", "LineString", "CircularString", "MultiCurve", "GeometryCollection"}
    [] OTHER -> {}

RECURSIVE Size(_)
Size(g) ==
  LET RECURSIVE Sum(_)
      Sum(s) == IF s = <<>> THEN 0 ELSE Size(Head(s)) + Sum(Tail(s))
  IN 1 + Sum(g.subs)

\* The geometries of at most n nodes whose root is of kind `kind`, and the
\* sequences of at most n nodes in all of geometries of the kinds ks.
RECURSIVE Tree(_, _, _), Forest(_, _, _)
Tree(n, z, kind) ==
  IF n = 0 THEN {}
  ELSE {[kind |-> kind, z |-> z, subs |-> f] : f \in Forest(n - 1, z, ChildKinds(kind))}
Forest(n, z, ks) ==
  IF n = 0 \/ ks = {} THEN {<<>>}
  ELSE {<<>>} \cup
       UNION {{<<t>> \o f : f \in Forest(n - Size(t), z, ks)} :
                t \in UNION {Tree(n, z, k) : k \in ks}}

Geometries(n) == UNION {Tree(n, z, k) : z \in BOOLEAN, k \in Kinds}

Inputs == Geometries(MaxNodes)
FeatureGeometries == Geometries(MaxFeatureNodes)

\* -------------------------------------------------------- geometry library

\* geom.GetGeometryType(): the ISO code, 1000 more with a height coordinate.
\* (For the linear kinds the library reports a different height-bearing code;
\* no comparison of the source tells the two apart.)
BaseCode(kind) ==
  CASE kind = "Point" -> 1
    [] kind = "LineString" -> 2
    [] kind = "Polygon" -> 3
    [] kind = "MultiLineString" -> 5
    [] kind = "MultiPolygon" -> 6
    [] kind = "GeometryCollection" -> 7
    [] kind = "CircularString" -> wkbCircularString
    [] kind = "CompoundCurve" -> wkbCompoundCurve
    [] kind = "CurvePolygon" -> wkbCurvePolygon
    [] kind = "MultiCurve" -> wkbMultiCurve
    [] kind = "MultiSurface" -> wkbMultiSurface
    [] OTHER -> 0

GetGeometryType(g) == BaseCode(g.kind) + (IF g.z THEN ZOffset ELSE 0)

\* geom.GetGeometryName().upper(), as its characters.
UpperName(kind) ==
  CASE kind = "Point" -> <<"P", "O", "I", "N", "T">>
    [] kind = "LineString" -> <<"L", "I", "N", "E", "S", "T", "R", "I", "N", "G">>
    [] kind = "Polygon" -> <<"P", "O", "L", "Y", "G", "O", "N">>
    [] kind = "MultiLineString" ->
         <<"M", "U", "L", "T", "I", "L", "I", "N", "E", "S", "T", "R", "I", "N", "G">>
    [] kind = "MultiPolygon" ->
         <<"M", "U", "L", "T", "I", "P", "O", "L", "Y", "G", "O", "N">>
    [] kind = "GeometryCollection" ->
         <<"G", "E", "O", "M", "E", "T", "R", "Y", "C", "O", "L", "L", "E", "C", "T", "I", "O", "N">>
    [] kind = "CircularString" ->
         <<"C", "I", "R", "C", "U", "L", "A", "R", "S", "T", "R", "I", "N", "G">>
    [] kind = "CompoundCurve" ->
         <<"C", "O", "M", "P", "O", "U", "N", "D", "C", "U", "R", "V", "E">>
    [] kind = "CurvePolygon" ->
         <<"C", "U", "R", "V", "E", "P", "O", "L", "Y", "G", "O", "N">>
    [] kind = "MultiCurve" -> <<"M", "U", "L", "T", "I", "C", "U", "R", "V", "E">>
    [] kind = "MultiSurface" ->
         <<"M", "U", "L", "T", "I", "S", "U", "R", "F", "A", "C", "E">>
    [] OTHER -> <<>>

GetGeometryName(g) == UpperName(g.kind)

\* Python's `sub in s` on strings.
Contains(s, sub) ==
  \E k \in 1..(Len(s) - Len(sub) + 1) : SubSeq(s, k, k + Len(sub) - 1) = sub

GetGeometryCount(g) == Len(g.subs)

\* geom.GetGeometryRef(i): the child at the 0-based index i, None out of range.
GetGeometryRef(g, i) ==
  IF i \in 0..(Len(g.subs) - 1) THEN g.subs[i + 1] ELSE Null

\* container.AddGeometry(child): appends; the container is raised to the
\* child's dimensionality when the child carries a height and it does not.
AddGeometry(g, child) ==
  [g EXCEPT !.subs = Append(@, child), !.z = @ \/ child.z]

\* geom.RemoveGeometry(i): drops the child at the 0-based index i.
RemoveGeometry(g, i) ==
  IF i \in 0..(Len(g.subs) - 1)
  THEN [g EXCEPT !.subs = SubSeq(@, 1, i) \o SubSeq(@, i + 2, Len(@))]
  ELSE g

\* The linear counterpart of each kind.
LinearKind(kind) ==
  CASE kind = "CircularString" -> "LineString"
    [] kind = "CompoundCurve" -> "LineString"
    [] kind = "CurvePolygon" -> "Polygon"
    [] kind = "MultiCurve" -> "MultiLineString"
    [] kind = "MultiSurface" -> "MultiPolygon"
    [] OTHER -> kind

\* "flatten curves" where it is supported: the fully linear version of the
\* whole value.  A line has no children: those of a compound curve merge
\* into it.
RECURSIVE Flatten(_)
Flatten(g) ==
  LET RECURSIVE Map(_)
      Map(s) == IF s = <<>> THEN <<>> ELSE <<Flatten(Head(s))>> \o Map(Tail(s))
  IN [kind |-> LinearKind(g.kind),
      z |-> g.z,
      subs |-> IF LinearKind(g.kind) = "LineString" THEN <<>> ELSE Map(g.subs)]

\* "segmentize": flattens one level; the direct children may still be curved.
Segmentize(g, tol) == [g EXCEPT !.kind = LinearKind(@)]

\* What geom.GetLinearGeometry() may do for a value: give the flattened
\* value, give None, or raise.
FlattenOutcomes == {"ok", "none", "raise"}


\* ------------------------------------------------------------------- state

VARIABLES
  stack,      \* frames of linearize_geometry, the running one first
  outcome,    \* how the last top-level call of linearize_geometry ended
  oracle,     \* what GetLinearGeometry has done so far, per value
  lastCall,   \* the last recursive call of linearize_geometry that was made
  input,      \* the geometry the direct caller starts from
  arg,        \* the argument of the running (or last) top-level call
  tolerance,  \* the caller's tolerance
  phase,      \* the direct caller's position
  r1,         \* the result of the direct caller's first call
  N,          \* source.featureCount()
  current,    \* the loop index of processAlgorithm
  hpc,        \* processAlgorithm's position
  sink,       \* ids of the records written to the sink, in order
  warnings,   \* ids of the records a warning was pushed for, in order
  log,        \* what became of each record iterated so far
  progress    \* the last value given to feedback.setProgress

harness_vars == <<N, current, hpc, sink, warnings, log, progress>>
\* What linearize_geometry does not touch: its callers' variables.
caller_vars == <<input, arg, tolerance, phase, r1,
                 N, current, hpc, sink, warnings, log, progress>>
vars == <<stack, outcome, oracle, lastCall, input, arg, tolerance, phase, r1,
          N, current, hpc, sink, warnings, log, progress>>

NoOutcome == [status |-> "none", value |-> Null, at |-> 0]
Returned(v, line) == [status |-> "returned", value |-> v, at |-> line]
Raised(line) == [status |-> "raised", value |-> Null, at |-> line]
NoCall == [made |-> FALSE, depth |-> 0, target |-> Null, parent |-> Null]

NewFrame(g, tol) ==
  [pc |-> "enter", geom |-> g, tol |-> tol, i |-> 0,
   out |-> Null, acc |-> <<>>, seg |-> Null]

Top == Head(stack)
SetTop(f) == <<f>> \o Tail(stack)

\* --------------------------------------------------- calls, returns, raises

\* A call of linearize_geometry with nargs positional arguments binds when it
\* gives every parameter a value: the function declares no default.
ArgsBind(nargs) == nargs = LinearizeParams

\* A loop that runs one index past the last child.
ChildIndicesOnePast(g) == 0..GetGeometryCount(g)

\* range(geom.GetGeometryCount())
ChildIndices(g) == 0..(GetGeometryCount(g) - 1)

\* GeometryConverter.linearize_geometry(sub), made at `line` by the running
\* frame: a new frame when the arguments bind, TypeError otherwise.  No frame
\* of linearize_geometry or of the converters handles it, and neither does
\* processAlgorithm.
RecursiveCall(sub, line) ==
  /\ lastCall' = [made |-> TRUE, depth |-> Len(stack), target |-> sub,
                  parent |-> Top.geom]
  /\ IF ArgsBind(RecursiveCallArgs)
     THEN /\ stack' = <<NewFrame(sub, DefaultTolerance)>> \o stack
          /\ UNCHANGED outcome
     ELSE /\ stack' = <<>>
          /\ outcome' = Raised(line)

\* `return v` of the running frame: to the caller of the top-level call, or
\* into the loop of the frame that made the recursive call.
Deliver(v, line) ==
  IF Len(stack) = 1
  THEN /\ stack' = <<>>
       /\ outcome' = Returned(v, line)
  ELSE LET caller == stack[2]
           next == IF caller.pc = "seg_loop"
                   THEN [caller EXCEPT
                           !.acc = IF v = Null THEN @ ELSE Append(@, v),
                           !.i = @ + 1]
                   ELSE [caller EXCEPT
                           !.out = IF v = Null THEN @ ELSE AddGeometry(@, v),
                           !.i = @ + 1]
       IN /\ stack' = <<next>> \o Tail(Tail(stack))
          /\ UNCHANGED outcome

\* geom.GetLinearGeometry() on g does o; the library does the same thing
\* each time it is given the same value.
Consult(g, o) ==
  /\ \A e \in oracle : e.g = g => e.o = o
  /\ oracle' = oracle \cup {[g |-> g, o |-> o]}

\* ------------------------------------------------------ linearize_geometry

is_multicurve(geom) ==
  \/ GetGeometryType(geom) = wkbMultiCurve
  \/ GetGeometryType(geom) = wkbMultiCurve + ZOffset
  \/ GetGeometryName(geom) = UpperName("MultiCurve")

is_multisurface(geom) ==
  \/ GetGeometryType(geom) = wkbMultiSurface
  \/ GetGeometryType(geom) = wkbMultiSurface + ZOffset
  \/ GetGeometryName(geom) = UpperName("MultiSurface")

curve_types ==
  {wkbCircularString, wkbCompoundCurve, wkbCurvePolygon, wkbMultiCurve,
   wkbMultiSurface, wkbCurve, wkbCircularStringZ, wkbCompoundCurveZ,
   wkbCurvePolygonZ, wkbMultiCurveZ, wkbMultiSurfaceZ, wkbCurveZ}

\* geom.GetGeometryType() in curve_types or "CURVE" in geom.GetGeometryName().upper()
is_curve(geom) ==
  \/ GetGeometryType(geom) \in curve_types
  \/ Contains(GetGeometryName(geom), <<"C", "U", "R", "V", "E">>)

\* ogr.Geometry(ogr.wkbMultiLineString), ogr.Geometry(ogr.wkbMultiPolygon):
\* a new, empty, planar container.
NewMultiLineString == [kind |-> "MultiLineString", z |-> FALSE, subs |-> <<>>]
NewMultiPolygon == [kind |-> "MultiPolygon", z |-> FALSE, subs |-> <<>>]

\* for _ in range(geom.GetGeometryCount()-1, -1, -1): geom.RemoveGeometry(_)
RECURSIVE RemoveFrom(_, _)
RemoveFrom(g, k) == IF k < 0 THEN g ELSE RemoveFrom(RemoveGeometry(g, k), k - 1)

\* for linear_sub in linearized_subs: geom.AddGeometry(linear_sub)
RECURSIVE AddAll(_, _)
AddAll(g, s) == IF s = <<>> THEN g ELSE AddAll(AddGeometry(g, Head(s)), Tail(s))

\* if geom is None: return None; then
\* try: geom = geom.GetLinearGeometry() or geom / except Exception: pass
linearize_enter ==
  /\ stack # <<>>
  /\ UNCHANGED caller_vars
  /\ Top.pc = "enter"
  /\ UNCHANGED lastCall
  /\ IF Top.geom = Null
     THEN /\ Deliver(Null, 172)
          /\ UNCHANGED oracle
     ELSE /\ \E o \in FlattenOutcomes :
               /\ Consult(Top.geom, o)
               /\ stack' = SetTop([Top EXCEPT
                                     !.geom = IF o = "ok" THEN Flatten(@) ELSE @,
                                     !.pc = "dispatch"])
          /\ UNCHANGED outcome

\* if is_multicurve(geom): ... elif is_multisurface(geom): ...
linearize_dispatch ==
  /\ stack # <<>>
  /\ UNCHANGED caller_vars
  /\ Top.pc = "dispatch"
  /\ UNCHANGED <<outcome, oracle, lastCall>>
  /\ stack' = SetTop(
       IF is_multicurve(Top.geom)
       THEN [Top EXCEPT !.pc = "mc_loop", !.i = 0, !.out = NewMultiLineString]
       ELSE IF is_multisurface(Top.geom)
       THEN [Top EXCEPT !.pc = "ms_loop", !.i = 0, !.out = NewMultiPolygon]
       ELSE [Top EXCEPT !.pc = "curve_check"])

\* The converter with the recursion left out: each child is added to the new
\* container as it is.
convert_multicurve_adds_children_as_is ==
  /\ stack # <<>>
  /\ UNCHANGED caller_vars
  /\ Top.pc = "mc_loop"
  /\ UNCHANGED <<oracle, outcome, lastCall>>
  /\ IF Top.i \in ChildIndices(Top.geom)
     THEN stack' = SetTop([Top EXCEPT
                             !.out = AddGeometry(@, GetGeometryRef(Top.geom, Top.i)),
                             !.i = @ + 1])
     ELSE stack' = SetTop([Top EXCEPT !.geom = Top.out, !.pc = "curve_check"])

\* One turn of the loop of convert_multicurve_to_multilinestring, or its
\* `return multiline`, which linearize_geometry assigns to geom.
convert_multicurve_to_multilinestring ==
  /\ stack # <<>>
  /\ UNCHANGED caller_vars
  /\ Top.pc = "mc_loop"
  /\ UNCHANGED oracle
  /\ IF Top.i \in ChildIndices(Top.geom)
     THEN RecursiveCall(GetGeometryRef(Top.geom, Top.i), 137)
     ELSE /\ stack' = SetTop([Top EXCEPT !.geom = Top.out, !.pc = "curve_check"])
          /\ UNCHANGED <<outcome, lastCall>>

\* The same for convert_multisurface_to_multipolygon.
convert_multisurface_to_multipolygon ==
  /\ stack # <<>>
  /\ UNCHANGED caller_vars
  /\ Top.pc = "ms_loop"
  /\ UNCHANGED oracle
  /\ IF Top.i \in ChildIndices(Top.geom)
     THEN RecursiveCall(GetGeometryRef(Top.geom, Top.i), 147)
     ELSE /\ stack' = SetTop([Top EXCEPT !.geom = Top.out, !.pc = "curve_check"])
          /\ UNCHANGED <<outcome, lastCall>>

\* if <curve-bearing>: geom = geom.segmentize(segmentize_tolerance); ...
\* else: return geom
linearize_curve_check ==
  /\ stack # <<>>
  /\ UNCHANGED caller_vars
  /\ Top.pc = "curve_check"
  /\ UNCHANGED <<oracle, lastCall>>
  /\ IF is_curve(Top.geom)
     THEN /\ stack' = SetTop([Top EXCEPT
                                !.geom = Segmentize(@, Top.tol),
                                !.seg = Segmentize(Top.geom, Top.tol),
                                !.i = 0, !.acc = <<>>, !.pc = "seg_loop"])
          /\ UNCHANGED outcome
     ELSE Deliver(Top.geom, 207)

\* One turn of: for i in range(geom.GetGeometryCount()): sub = ...;
\* if sub is not None: linear_sub = linearize_geometry(sub); ...
linearize_sub_loop ==
  /\ stack # <<>>
  /\ UNCHANGED caller_vars
  /\ Top.pc = "seg_loop"
  /\ UNCHANGED oracle
  /\ IF Top.i \in ChildIndices(Top.geom)
     THEN IF GetGeometryRef(Top.geom, Top.i) # Null
          THEN RecursiveCall(GetGeometryRef(Top.geom, Top.i), 195)
          ELSE /\ stack' = SetTop([Top EXCEPT !.i = @ + 1])
               /\ UNCHANGED <<outcome, lastCall>>
     ELSE /\ stack' = SetTop([Top EXCEPT !.pc = "replace"])
          /\ UNCHANGED <<outcome, lastCall>>

\* if linearized_subs: remove every child, last first, then add the
\* linearized ones.
linearize_replace ==
  /\ stack # <<>>
  /\ UNCHANGED caller_vars
  /\ Top.pc = "replace"
  /\ UNCHANGED <<outcome, oracle, lastCall>>
  /\ stack' = SetTop([Top EXCEPT
       !.geom = IF Top.acc # <<>>
                THEN AddAll(RemoveFrom(@, GetGeometryCount(@) - 1), Top.acc)
                ELSE @,
       !.pc = "final"])

\* geom = geom.GetLinearGeometry(); return geom
linearize_final ==
  /\ stack # <<>>
  /\ UNCHANGED caller_vars
  /\ Top.pc = "final"
  /\ UNCHANGED lastCall
  /\ \E o \in FlattenOutcomes :
       /\ Consult(Top.geom, o)
       /\ CASE o = "ok" -> Deliver(Flatten(Top.geom), 207)
            [] o = "none" -> Deliver(Null, 207)
            [] o = "raise" -> stack' = <<>> /\ outcome' = Raised(206)

\* ----------------------------------------------------------- direct caller

\* linearize_geometry(g, t) for any g, absent or not, and then once more on
\* what it returned.
InitCall ==
  /\ stack = <<>> /\ outcome = NoOutcome /\ oracle = {} /\ lastCall = NoCall
  /\ input \in Inputs \cup {Null}
  /\ arg = Null
  /\ tolerance \in Tolerances
  /\ phase = "idle" /\ r1 = Null
  /\ N = 0 /\ current = 0 /\ hpc = "off"
  /\ sink = <<>> /\ warnings = <<>> /\ log = <<>> /\ progress = 0

FirstCall ==
  /\ phase = "idle"
  /\ ArgsBind(HarnessCallArgs)
  /\ stack' = <<NewFrame(input, tolerance)>>
  /\ arg' = input
  /\ phase' = "first"
  /\ UNCHANGED <<outcome, oracle, lastCall, input, tolerance, r1>>
  /\ UNCHANGED harness_vars

SecondCall ==
  /\ phase = "first"
  /\ stack = <<>>
  /\ outcome.status = "returned"
  /\ r1' = outcome.value
  /\ arg' = outcome.value
  /\ stack' = <<NewFrame(outcome.value, tolerance)>>
  /\ outcome' = NoOutcome
  /\ lastCall' = NoCall
  /\ phase' = "second"
  /\ UNCHANGED <<oracle, input, tolerance>>
  /\ UNCHANGED harness_vars

NextCall ==
  \/ FirstCall
  \/ SecondCall
  \/ linearize_enter
  \/ linearize_dispatch
  \/ convert_multicurve_to_multilinestring
  \/ convert_multisurface_to_multipolygon
  \/ linearize_curve_check
  \/ linearize_sub_loop
  \/ linearize_replace
  \/ linearize_final

SpecCall == InitCall /\ [][NextCall]_vars

FairSpecCall == SpecCall /\ WF_vars(NextCall)


\* -------------------------------------------------------- processAlgorithm

\* int(current * total), total = 100.0 / source.featureCount() if
\* source.featureCount() else 0.  (The float product truncates to the integer
\* quotient for every count below 97.)
ProgressAt(cur) == IF N = 0 THEN 0 ELSE (cur * 100) \div N

Init ==
  /\ stack = <<>> /\ outcome = NoOutcome /\ oracle = {} /\ lastCall = NoCall
  /\ input = Null /\ arg = Null
  /\ tolerance \in Tolerances
  /\ phase = "harness" /\ r1 = Null
  /\ N \in 0..MaxFeatures
  /\ current = 0 /\ hpc = "loop"
  /\ sink = <<>> /\ warnings = <<>> /\ log = <<>> /\ progress = 0

\* The head of `for current, feature in enumerate(source.getFeatures())`:
\* the end of the records, a cancellation, a record without geometry, or
\* the call of linearize_geometry on the record's decoded geometry.
\* Each record is a geometry of its own: what the library does for one says
\* nothing of the next.
process_record ==
  /\ hpc = "loop"
  /\ UNCHANGED <<input, tolerance, phase, r1, N, sink, warnings, progress>>
  /\ IF current = N
     THEN /\ hpc' = "done"
          /\ UNCHANGED <<stack, outcome, oracle, lastCall, arg, current, log>>
     ELSE \E canceled \in BOOLEAN, geom \in FeatureGeometries \cup {Null} :
            IF canceled
            THEN /\ hpc' = "done"
                 /\ UNCHANGED <<stack, outcome, oracle, lastCall, arg, current, log>>
            ELSE IF geom = Null
            THEN /\ current' = current + 1
                 /\ log' = Append(log, "absent")
                 /\ UNCHANGED <<stack, outcome, oracle, lastCall, arg, hpc>>
            ELSE /\ IF ArgsBind(HarnessCallArgs)
                    THEN /\ stack' = <<NewFrame(geom, tolerance)>>
                         /\ outcome' = NoOutcome
                    ELSE /\ stack' = <<>>
                         /\ outcome' = Raised(111)
                 /\ arg' = geom
                 /\ oracle' = {}
                 /\ lastCall' = NoCall
                 /\ hpc' = "calling"
                 /\ UNCHANGED <<current, log>>

\* After the call: the exception leaves processAlgorithm; None is warned of
\* and skipped; a geometry is written and the progress set.
process_result ==
  /\ hpc = "calling"
  /\ stack = <<>>
  /\ outcome.status # "none"
  /\ UNCHANGED <<stack, outcome, oracle, lastCall>>
  /\ UNCHANGED <<input, arg, tolerance, phase, r1, N>>
  /\ IF outcome.status = "raised"
     THEN /\ hpc' = "aborted"
          /\ UNCHANGED <<current, sink, warnings, log, progress>>
     ELSE IF outcome.value = Null
     THEN /\ warnings' = Append(warnings, current)
          /\ log' = Append(log, "null")
          /\ current' = current + 1
          /\ hpc' = "loop"
          /\ UNCHANGED <<sink, progress>>
     ELSE /\ sink' = Append(sink, current)
          /\ progress' = ProgressAt(current)
          /\ log' = Append(log, "written")
          /\ current' = current + 1
          /\ hpc' = "loop"
          /\ UNCHANGED warnings

Next ==
  \/ process_record
  \/ process_result
  \/ linearize_enter
  \/ linearize_dispatch
  \/ convert_multicurve_to_multilinestring
  \/ convert_multisurface_to_multipolygon
  \/ linearize_curve_check
  \/ linearize_sub_loop
  \/ linearize_replace
  \/ linearize_final

Spec == Init /\ [][Next]_vars


\* ------------------------------------------------------------------ claims

CurveKinds ==
  {"CircularString", "CompoundCurve", "CurvePolygon", "MultiCurve", "MultiSurface"}

\* Neither g nor any value it holds, at any depth, is of a curve-bearing kind.
RECURSIVE NoCurve(_)
NoCurve(g) ==
  /\ g.kind \notin CurveKinds
  /\ \A k \in 1..Len(g.subs) : NoCurve(g.subs[k])

\* C1: a geometry that linearize_geometry returns for a non-absent argument
\* holds no curve-bearing kind, at its root or below.
C1_NoCurvesRemain ==
  (outcome.status = "returned" /\ arg # Null /\ outcome.value # Null)
    => NoCurve(outcome.value)

\* C2: no exception escapes a call of linearize_geometry: every call ends by
\* returning.
C2_NoExceptionEscapes == outcome.status # "raised"

\* C3: linearize_geometry returns None exactly when its argument is None.
C3_NoneOnlyForAbsent ==
  outcome.status = "returned" => (outcome.value = Null <=> arg = Null)

\* C4: the geometry returned carries a height coordinate if and only if the
\* argument does.
C4_HeightPreserved ==
  (outcome.status = "returned" /\ arg # Null /\ outcome.value # Null)
    => (outcome.value.z <=> arg.z)

\* C5: a call on a MultiCurve of N children ends by returning a
\* MultiLineString of at most N children, and never by failing; the same for
\* a MultiSurface and a MultiPolygon.
C5_CollectionCardinality ==
  (stack = <<>> /\ outcome.status # "none"
     /\ arg.kind \in {"MultiCurve", "MultiSurface"})
    => /\ outcome.status = "returned"
       /\ outcome.value.kind = LinearKind(arg.kind)
       /\ Len(outcome.value.subs) <= Len(arg.subs)

\* C6: linearize_geometry is idempotent: given what it returned, it returns
\* the same value again (kind, children in order, dimensionality).
C6_Idempotent ==
  (phase = "second" /\ stack = <<>> /\ outcome.status = "returned")
    => outcome.value = r1

\* A curve-bearing geometry was linearized to another value, which was fed
\* back and returned.
C6_Witness ==
  /\ phase = "second" /\ stack = <<>> /\ outcome.status = "returned"
  /\ input.kind \in CurveKinds
  /\ r1 # Null /\ r1 # input

Count(s, x) == Cardinality({k \in 1..Len(s) : s[k] = x})

\* C7: every record skipped (no geometry, or linearized to None) has a
\* warning and no output record, every other record iterated has exactly one
\* output record, and the run is not aborted.
C7_SkipsWarnedOthersWritten ==
  /\ hpc # "aborted"
  /\ \A k \in 1..Len(log) :
       IF log[k] \in {"absent", "null"}
       THEN Count(warnings, k - 1) >= 1 /\ Count(sink, k - 1) = 0
       ELSE Count(sink, k - 1) = 1

\* C8: with the record count N known and positive, after k records have been
\* processed (written or skipped) the progress reported is 100 * k / N,
\* truncated.
C8_ProgressIsShareProcessed ==
  (hpc = "loop" /\ N > 0 /\ current >= 1)
    => progress = (100 * current) \div N

\* C9: the segmentize-and-recurse step runs to its end, no child aborting
\* it, and then the children of the intermediate value are the linearized
\* children if there is one, and those segmentize produced otherwise.
C9_ChildrenReplaced ==
  /\ ~(outcome.status = "raised" /\ outcome.at = 195)
  /\ \A k \in 1..Len(stack) :
       stack[k].pc = "final"
         => stack[k].geom.subs =
              IF stack[k].acc # <<>> THEN stack[k].acc ELSE stack[k].seg.subs

\* The nesting depth of a geometry: 0 without children.
RECURSIVE Depth(_)
Depth(g) ==
  LET RECURSIVE Max(_)
      Max(s) == IF s = <<>> THEN 0
                ELSE LET d == 1 + Depth(Head(s))
                         m == Max(Tail(s))
                     IN IF d > m THEN d ELSE m
  IN Max(g.subs)

\* C10: every call of linearize_geometry ends, and every recursive call is
\* made on a child of the value its caller is processing, no deeper than the
\* argument is nested.
C10_TerminatesWithinDepth ==
  /\ [](lastCall.made =>
          /\ lastCall.depth <= Depth(arg)
          /\ \E k \in 1..Len(lastCall.parent.subs) :
               lastCall.parent.subs[k] = lastCall.target)
  /\ ((stack # <<>>) ~> (stack = <<>>))

\* A recursive call was made and the top-level call has ended.
C10_Witness ==
  /\ lastCall.made
  /\ Depth(arg) >= 1
  /\ stack = <<>>
  /\ outcome.status # "none"

====
